---------------------------- MODULE Spec2Model ----------------------------
(***************************************************************************)
(* Model of the episode simulation engine of amm-beta-sim                  *)
(* (src/offchain/run_orderflow.py): run_arbitrage_step and run_episode,    *)
(* with the pool adapter (sim_step.run_step, state_snapshot.get_state) as  *)
(* an external collaborator whose responses are nondeterministic.          *)
(*                                                                         *)
(* Numbers.  Prices are Decimals in the source; the model takes integer    *)
(* prices (USDC per WETH).  Raw token amounts are integers.  Every USDC    *)
(* value (fees, valuations) is held as an integer numerator over the fixed *)
(* denominator VALUE_DEN = WETH_DECIMALS * USDC_DECIMALS * FEE_DEN, which  *)
(* makes the Decimal arithmetic of the source exact in integers.  TLC has  *)
(* 32-bit integers, so the token scales WETH_DECIMALS and USDC_DECIMALS    *)
(* are parameters of the model (10^18 and 10^6 in the source).             *)
(* float() is modelled as rounding to FloatMant significant bits.          *)
(***************************************************************************)
EXTENDS Integers, Sequences, FiniteSets, TLC

VARIABLES
    pc,                   \* position of the running call
    caller,               \* "run_episode" or "direct" (run_arbitrage_step called on its own)
    chain,                \* the pool's slot0 as the adapter sees it: [tick, price]
    swaps,                \* swaps submitted to the adapter in the current step / call
    beta_ranges,          \* loaded band set: sequence of <<lower, upper>>
    ep,                   \* locals of run_episode
    cumulative_fees_usdc, \* run_episode's fee accumulator (numerator over VALUE_DEN)
    rows,                 \* run_episode's row list
    arb,                  \* arguments and locals of run_arbitrage_step
    ret,                  \* value returned by run_arbitrage_step, <<>> before it returns
    policy,               \* arguments, locals and result of make_beta_ranges (beta_policy.py)
    price_state           \* PriceProcessState and parameters of step_price (price_process.py)

vars == <<pc, caller, chain, swaps, beta_ranges, ep, cumulative_fees_usdc, rows, arb, ret,
          policy, price_state>>

---------------------------------------------------------------------------
(* Bounds of the model *)

MaxBal == 4            \* swap_helper balances 0..MaxBal are all tried
BigBal == 81           \* one large balance (probe > 1, nudge > 1)
MaxArbTrades == 3      \* max_arb_trades ranges over 0..MaxArbTrades in direct calls
MaxSteps == 2          \* n_steps ranges over 0..MaxSteps
FloatMant == 10        \* mantissa bits of the model's float (53 in CPython)
WETH_DECIMALS == 100   \* raw units per WETH (10^18 in the source)
USDC_DECIMALS == 1     \* raw units per USDC (10^6 in the source)

(* Program constants *)

FEE_NUM == 3           \* fee_fraction = POOL_FEE_PPM / ONE_MILLION = 3000/1000000
FEE_DEN == 1000
BAND_NUM == 1          \* band: float = 0.001
BAND_DEN == 1000
PROBE_PCT == 5         \* probe_frac = Decimal("0.05")
NAIVE_DIV == 4         \* max_affordable // 4
NUDGE_DIV == 10        \* remaining_budget // 10
AFFORD_DIV == 2        \* token_in_bal // 2
DEFAULT_PRICE == 1000  \* step_price: p = Decimal("1000") when p <= 0
MIN_NOTIONAL == 100    \* max(Decimal("100"), ...)
MAX_NOTIONAL == 10000  \* min(..., Decimal("10000"))
NOTIONAL_DIV == 100    \* init_strategy_value * Decimal("0.01")
EPISODE_MAX_ARB == 10  \* run_episode passes max_arb_trades=10

VALUE_DEN == WETH_DECIMALS * USDC_DECIMALS * FEE_DEN

---------------------------------------------------------------------------
(* Input sets: what the adapter can answer *)

\* Pool states (slot0) the adapter can be in after a swap.  A direct call of
\* run_arbitrage_step tries them all; an episode, whose rows keep the whole
\* history, tries EpisodePoolStates.
PoolStates ==
    { [price |-> 998,  tick |-> -20],
      [price |-> 1000, tick |-> 0],
      [price |-> 1001, tick |-> 10],
      [price |-> 1002, tick |-> 20],
      [price |-> 1004, tick |-> 40] }

EpisodePoolStates ==
    { [price |-> 1000, tick |-> 0],
      [price |-> 1002, tick |-> 20],
      [price |-> 1004, tick |-> 40] }

SwapResults == IF caller = "direct" THEN PoolStates ELSE EpisodePoolStates

\* An uninitialised pool reports price 0.
InitPoolStates == PoolStates \cup { [price |-> 0, tick |-> 0] }

EpisodeInitPoolStates == { [price |-> 0, tick |-> 0], [price |-> 1000, tick |-> 0] }

\* The band set of beta_ranges.json; <<>> when loading it failed.
LoadedRanges == << <<-60, -40>>, <<0, 40>> >>
BandSets == { << >>, LoadedRanges }

\* swap_helper balances <<weth, usdc>> a state snapshot can report
Balances == (0..MaxBal) \cup {BigBal}

BalancePairs ==
    IF caller = "direct" THEN Balances \X Balances
    ELSE { <<0, 0>>, <<BigBal, BigBal>> }

---------------------------------------------------------------------------
(* Pure helpers *)

Max(a, b) == IF a >= b THEN a ELSE b
Min(a, b) == IF a <= b THEN a ELSE b
Abs(x) == IF x < 0 THEN -x ELSE x

\* is_tick_in_any_range: tick in some [lo, hi)
IsTickInAnyRangeUpperIncl(tick, ranges) ==
    \E i \in 1..Len(ranges) : ranges[i][1] <= tick /\ tick <= ranges[i][2]

is_tick_in_any_range(tick, ranges) ==
    \E i \in 1..Len(ranges) : ranges[i][1] <= tick /\ tick < ranges[i][2]

\* compute_fee_usdc, as a numerator over VALUE_DEN
compute_fee_usdc(amount_in_raw, zero_for_one, market_price) ==
    IF amount_in_raw <= 0 THEN 0
    ELSE IF zero_for_one
      THEN amount_in_raw * FEE_NUM * market_price * USDC_DECIMALS
      ELSE amount_in_raw * FEE_NUM * WETH_DECIMALS

\* value_position_usdc, as a numerator over VALUE_DEN
value_position_usdc(weth_raw, usdc_raw, price) ==
    (weth_raw * price * USDC_DECIMALS + usdc_raw * WETH_DECIMALS) * FEE_DEN

\* abs(rel_diff) <= band, with rel_diff = (p_pool - p_mkt) / p_mkt and p_mkt > 0
WithinBandStrict(p_pool, p_mkt) ==
    Abs(p_pool - p_mkt) * BAND_DEN < BAND_NUM * p_mkt

WithinBand(p_pool, p_mkt) ==
    Abs(p_pool - p_mkt) * BAND_DEN <= BAND_NUM * p_mkt

\* token_in_bal: the swap_helper balance of the token the arbitrage sells
TokenInBalSwapped(sell_weth, weth_bal, usdc_bal) ==
    IF sell_weth THEN usdc_bal ELSE weth_bal

TokenInBal(sell_weth, weth_bal, usdc_bal) ==
    IF sell_weth THEN weth_bal ELSE usdc_bal

MaxAffordable(token_in_bal) == token_in_bal \div AFFORD_DIV

\* int(max(1, Decimal(max_affordable) * probe_frac))
ProbeAmount(max_affordable) == Max(1, (max_affordable * PROBE_PCT) \div 100)

\* int(max(1, max_affordable // 4))
NaiveAmount(max_affordable) == Max(1, max_affordable \div NAIVE_DIV)

\* int(max(1, remaining_budget // 10))
NudgeAmount(remaining_budget) == Max(1, remaining_budget \div NUDGE_DIV)

\* q_target = remaining_delta_p / slope, slope = delta_p / delta_q:
\* its sign, and int(q_target) when it is positive.  The code divides Decimals
\* twice (28 digits each); for the probe amounts that occur here (1 and 2) the
\* slope is exact and int(q_target) is the floor of the exact quotient
QTargetPositive(p_mkt, p_after_probe, delta_p) ==
    (p_mkt - p_after_probe) * delta_p > 0

QTargetInt(p_mkt, p_after_probe, delta_p, delta_q) ==
    (Abs(p_mkt - p_after_probe) * delta_q) \div Abs(delta_p)

\* max(1, min(q_target_int, remaining_budget))
ClampTarget(q_target_int, remaining_budget) ==
    Max(1, Min(q_target_int, remaining_budget))


\* float(): the nearest value with FloatMant significant bits, ties to even
RECURSIVE BitLen(_)
BitLen(n) == IF n = 0 THEN 0 ELSE 1 + BitLen(n \div 2)

RoundMagnitude(n) ==
    IF BitLen(n) <= FloatMant THEN n
    ELSE LET unit == 2 ^ (BitLen(n) - FloatMant)
             q == n \div unit
             r == n % unit
         IN  IF 2 * r > unit \/ (2 * r = unit /\ q % 2 = 1)
               THEN (q + 1) * unit
               ELSE q * unit

Float(x) == IF x < 0 THEN 0 - RoundMagnitude(0 - x) ELSE RoundMagnitude(x)

\* step_price (run_orderflow.py): p * exp(sigma * z); factor = <<num, den>> stands for exp(sigma * z)
step_price(price, factor) ==
    ((IF price <= 0 THEN DEFAULT_PRICE ELSE price) * factor[1]) \div factor[2]

\* base_notional_usdc = min(max(100, init_strategy_value * 0.01), 10000), then
\* amount_usdc = int(base_notional_usdc * USDC_DECIMALS)
AmountUsdc(init_strategy_value) ==
    IF init_strategy_value < MIN_NOTIONAL * NOTIONAL_DIV * VALUE_DEN
      THEN MIN_NOTIONAL * USDC_DECIMALS
    ELSE IF init_strategy_value \div VALUE_DEN >= MAX_NOTIONAL * NOTIONAL_DIV
      THEN MAX_NOTIONAL * USDC_DECIMALS
    ELSE (init_strategy_value \div NOTIONAL_DIV) \div (WETH_DECIMALS * FEE_DEN)

\* amount_weth = int(base_notional_usdc / max(market_price, 1) * WETH_DECIMALS)
AmountWeth(init_strategy_value, market_price) ==
    IF init_strategy_value < MIN_NOTIONAL * NOTIONAL_DIV * VALUE_DEN
      THEN (MIN_NOTIONAL * WETH_DECIMALS) \div Max(market_price, 1)
    ELSE IF init_strategy_value \div VALUE_DEN >= MAX_NOTIONAL * NOTIONAL_DIV
      THEN (MAX_NOTIONAL * WETH_DECIMALS) \div Max(market_price, 1)
    ELSE ((init_strategy_value \div NOTIONAL_DIV) \div (USDC_DECIMALS * FEE_DEN))
           \div Max(market_price, 1)

---------------------------------------------------------------------------
(* run_arbitrage_step *)

Unset == -1

ArbIdle ==
    [ pool_price_start |-> 0, market_price |-> 0, max_arb_trades |-> 0,
      n_trades |-> 0, arb_fees_usdc |-> 0, zero_for_one |-> FALSE,
      weth_bal |-> Unset, usdc_bal |-> Unset, max_affordable |-> Unset,
      probe_amount |-> Unset, p_after_probe |-> Unset,
      q_target_int |-> Unset, p_after_main |-> Unset ]

ArbCall(pool_price_start, market_price, max_arb_trades) ==
    [ ArbIdle EXCEPT !.pool_price_start = pool_price_start,
                     !.market_price = market_price,
                     !.max_arb_trades = max_arb_trades ]

EpIdle ==
    [ n_steps |-> 0, step_idx |-> 0, market_price |-> 0, direction |-> "none",
      weth0 |-> 0, usdc0 |-> 0, init_strategy_value |-> 0,
      last_amount_in_raw |-> 0, last_zero_for_one |-> FALSE,
      post_tick |-> 0, post_pool_price |-> 0, lp_weth |-> 0, lp_usdc |-> 0,
      seed |-> << >>, rng_pos |-> 0 ]

\* an adapter record of one submitted swap
Swap(kind, amount_in, zero_for_one, ok) ==
    [ kind |-> kind, amount_in |-> amount_in, zero_for_one |-> zero_for_one, ok |-> ok ]

ArbUnchangedEpisode ==
    UNCHANGED <<caller, beta_ranges, ep, cumulative_fees_usdc, rows, policy, price_state>>

\* return (price, n_trades, arb_fees_usdc)
Return(price, a) ==
    /\ pc' = "arb_return"
    /\ ret' = <<price, a.n_trades, a.arb_fees_usdc>>
    /\ arb' = a

\* an exception leaves run_arbitrage_step (and run_episode, which does not catch it)
Raise ==
    /\ pc' = "raised"
    /\ UNCHANGED <<ret, arb>>

\* lines 182-196: invalid prices, or pool price within the band: no state read, no swap
ArbEntryNoTrade ==
    /\ pc = "arb_entry"
    /\ \/ arb.pool_price_start <= 0
       \/ arb.market_price <= 0
       \/ WithinBand(arb.pool_price_start, arb.market_price)
    /\ Return(arb.pool_price_start, arb)
    /\ UNCHANGED <<chain, swaps>>
    /\ ArbUnchangedEpisode

ArbEntryGuard ==
    /\ pc = "arb_entry"
    /\ arb.pool_price_start > 0
    /\ arb.market_price > 0
    /\ ~WithinBand(arb.pool_price_start, arb.market_price)

\* lines 198-220: get_state() answers; direction and budget
ArbEntryRead ==
    /\ ArbEntryGuard
    /\ \E bal \in BalancePairs :
         LET weth_bal == bal[1]
             usdc_bal == bal[2]
             sell_weth == arb.pool_price_start > arb.market_price
             token_in_bal == TokenInBal(sell_weth, weth_bal, usdc_bal)
             max_affordable == MaxAffordable(token_in_bal)
             a == [arb EXCEPT !.zero_for_one = sell_weth,
                              !.weth_bal = weth_bal,
                              !.usdc_bal = usdc_bal]
         IN  IF token_in_bal <= 0
               THEN Return(arb.pool_price_start, a)
             ELSE IF max_affordable <= 0
               THEN Return(arb.pool_price_start,
                           [a EXCEPT !.max_affordable = max_affordable])
             ELSE /\ pc' = "arb_probe"
                  /\ arb' = [a EXCEPT !.max_affordable = max_affordable,
                                      !.probe_amount = ProbeAmount(max_affordable)]
                  /\ UNCHANGED ret
    /\ UNCHANGED <<chain, swaps>>
    /\ ArbUnchangedEpisode

\* line 199: get_state() raises; nothing catches it
ArbEntryReadFails ==
    /\ ArbEntryGuard
    /\ Raise
    /\ UNCHANGED <<chain, swaps>>
    /\ ArbUnchangedEpisode

\* lines 230-236: the probe swap succeeds
ArbProbe ==
    /\ pc = "arb_probe"
    /\ \E s \in SwapResults :
         /\ chain' = s
         /\ swaps' = Append(swaps, Swap("probe", arb.probe_amount, arb.zero_for_one, TRUE))
         /\ arb' = [arb EXCEPT !.n_trades = @ + 1, !.p_after_probe = s.price]
    /\ pc' = "arb_probe_read"
    /\ UNCHANGED ret
    /\ ArbUnchangedEpisode

\* lines 232-234: the probe swap raises: caught, return
ArbProbeFails ==
    /\ pc = "arb_probe"
    /\ swaps' = Append(swaps, Swap("probe", arb.probe_amount, arb.zero_for_one, FALSE))
    /\ Return(arb.pool_price_start, arb)
    /\ UNCHANGED chain
    /\ ArbUnchangedEpisode

\* fee of one sub-trade, accrued only when the tick read after it is in a band
AccrueArbFee(a, amount, tick) ==
    IF is_tick_in_any_range(tick, beta_ranges)
      THEN [a EXCEPT !.arb_fees_usdc = @ + compute_fee_usdc(amount, a.zero_for_one, a.market_price)]
      ELSE a

\* lines 238-299: state read after the probe, fee, and the choice of the next trade
ArbProbeRead ==
    /\ pc = "arb_probe_read"
    /\ LET a == AccrueArbFee(arb, arb.probe_amount, chain.tick)
           p_after_probe == a.p_after_probe
           delta_p == p_after_probe - a.pool_price_start
           delta_q == a.probe_amount
           remaining_budget == a.max_affordable - a.probe_amount
       IN  IF WithinBand(p_after_probe, a.market_price) \/ a.n_trades >= a.max_arb_trades
             THEN Return(p_after_probe, a)
           ELSE IF delta_q = 0 \/ delta_p = 0
             THEN /\ pc' = "arb_naive"
                  /\ arb' = a
                  /\ UNCHANGED ret
           ELSE IF ~QTargetPositive(a.market_price, p_after_probe, delta_p)
             THEN Return(p_after_probe, a)
           ELSE IF remaining_budget <= 0
             THEN Return(p_after_probe, a)
           ELSE /\ pc' = "arb_main"
                /\ arb' = [a EXCEPT !.q_target_int =
                             ClampTarget(QTargetInt(a.market_price, p_after_probe, delta_p, delta_q),
                                         remaining_budget)]
                /\ UNCHANGED ret
    /\ UNCHANGED <<chain, swaps>>
    /\ ArbUnchangedEpisode

\* line 239: get_state() raises after the probe; nothing catches it
ArbProbeReadFails ==
    /\ pc = "arb_probe_read"
    /\ Raise
    /\ UNCHANGED <<chain, swaps>>
    /\ ArbUnchangedEpisode

\* lines 260-262: the naive swap succeeds
ArbNaive ==
    /\ pc = "arb_naive"
    /\ \E s \in SwapResults :
         /\ chain' = s
         /\ swaps' = Append(swaps, Swap("naive", NaiveAmount(arb.max_affordable),
                                        arb.zero_for_one, TRUE))
         /\ arb' = [arb EXCEPT !.n_trades = @ + 1]
    /\ pc' = "arb_naive_read"
    /\ UNCHANGED ret
    /\ ArbUnchangedEpisode

\* lines 270-272: the naive swap raises: caught, return the price after the probe
ArbNaiveFails ==
    /\ pc = "arb_naive"
    /\ swaps' = Append(swaps, Swap("naive", NaiveAmount(arb.max_affordable),
                                   arb.zero_for_one, FALSE))
    /\ Return(arb.p_after_probe, arb)
    /\ UNCHANGED chain
    /\ ArbUnchangedEpisode

\* lines 264-269: state read after the naive swap, fee, return its price
ArbNaiveReadThenNudge ==
    /\ pc = "arb_naive_read"
    /\ LET naive_amount == NaiveAmount(arb.max_affordable)
           a == [AccrueArbFee(arb, naive_amount, chain.tick)
                   EXCEPT !.q_target_int = naive_amount, !.p_after_main = chain.price]
           remaining_budget == a.max_affordable - a.probe_amount - naive_amount
       IN  IF WithinBand(chain.price, a.market_price) \/ a.n_trades >= a.max_arb_trades
             THEN Return(chain.price, a)
           ELSE IF remaining_budget <= 0
             THEN Return(chain.price, a)
           ELSE /\ pc' = "arb_nudge"
                /\ arb' = a
                /\ UNCHANGED ret
    /\ UNCHANGED <<chain, swaps>>
    /\ ArbUnchangedEpisode

ArbNaiveRead ==
    /\ pc = "arb_naive_read"
    /\ Return(chain.price, AccrueArbFee(arb, NaiveAmount(arb.max_affordable), chain.tick))
    /\ UNCHANGED <<chain, swaps>>
    /\ ArbUnchangedEpisode

\* line 264 raises inside the try of line 260: caught at 270, n_trades already counted
ArbNaiveReadFails ==
    /\ pc = "arb_naive_read"
    /\ Return(arb.p_after_probe, arb)
    /\ UNCHANGED <<chain, swaps>>
    /\ ArbUnchangedEpisode

\* lines 301-307: the targeted swap succeeds
ArbMain ==
    /\ pc = "arb_main"
    /\ \E s \in SwapResults :
         /\ chain' = s
         /\ swaps' = Append(swaps, Swap("main", arb.q_target_int, arb.zero_for_one, TRUE))
         /\ arb' = [arb EXCEPT !.n_trades = @ + 1, !.p_after_main = s.price]
    /\ pc' = "arb_main_read"
    /\ UNCHANGED ret
    /\ ArbUnchangedEpisode

\* lines 303-305: the targeted swap raises: caught, return the price after the probe
ArbMainFailsRetry ==
    /\ pc = "arb_main"
    /\ Len(swaps) < 4
    /\ swaps' = Append(swaps, Swap("main", arb.q_target_int, arb.zero_for_one, FALSE))
    /\ UNCHANGED <<pc, arb, ret, chain>>
    /\ ArbUnchangedEpisode

ArbMainFails ==
    /\ pc = "arb_main"
    /\ swaps' = Append(swaps, Swap("main", arb.q_target_int, arb.zero_for_one, FALSE))
    /\ Return(arb.p_after_probe, arb)
    /\ UNCHANGED chain
    /\ ArbUnchangedEpisode

\* lines 309-332: state read after the targeted swap, fee, and whether to nudge
ArbMainRead ==
    /\ pc = "arb_main_read"
    /\ LET a == AccrueArbFee(arb, arb.q_target_int, chain.tick)
           remaining_budget == a.max_affordable - a.probe_amount - a.q_target_int
       IN  IF WithinBand(a.p_after_main, a.market_price) \/ a.n_trades >= a.max_arb_trades
             THEN Return(a.p_after_main, a)
           ELSE IF remaining_budget <= 0
             THEN Return(a.p_after_main, a)
           ELSE /\ pc' = "arb_nudge"
                /\ arb' = a
                /\ UNCHANGED ret
    /\ UNCHANGED <<chain, swaps>>
    /\ ArbUnchangedEpisode

\* line 309: get_state() raises after the targeted swap; nothing catches it
ArbMainReadFails ==
    /\ pc = "arb_main_read"
    /\ Raise
    /\ UNCHANGED <<chain, swaps>>
    /\ ArbUnchangedEpisode

\* remaining_budget before the nudge (line 324)
NudgeBudget(a) == a.max_affordable - a.probe_amount - a.q_target_int

\* lines 334-336: the nudge swap succeeds
ArbNudge ==
    /\ pc = "arb_nudge"
    /\ \E s \in SwapResults :
         /\ chain' = s
         /\ swaps' = Append(swaps, Swap("nudge", NudgeAmount(NudgeBudget(arb)),
                                        arb.zero_for_one, TRUE))
         /\ arb' = [arb EXCEPT !.n_trades = @ + 1]
    /\ pc' = "arb_nudge_read"
    /\ UNCHANGED ret
    /\ ArbUnchangedEpisode

\* lines 345-347: the nudge swap raises: caught, return the price after the targeted swap
ArbNudgeFails ==
    /\ pc = "arb_nudge"
    /\ swaps' = Append(swaps, Swap("nudge", NudgeAmount(NudgeBudget(arb)),
                                   arb.zero_for_one, FALSE))
    /\ Return(arb.p_after_main, arb)
    /\ UNCHANGED chain
    /\ ArbUnchangedEpisode

\* lines 338-344: state read after the nudge, fee, return its price
ArbNudgeRead ==
    /\ pc = "arb_nudge_read"
    /\ Return(chain.price, AccrueArbFee(arb, NudgeAmount(NudgeBudget(arb)), chain.tick))
    /\ UNCHANGED <<chain, swaps>>
    /\ ArbUnchangedEpisode

\* line 338 raises inside the try of line 334: caught at 345, n_trades already counted
ArbNudgeReadFails ==
    /\ pc = "arb_nudge_read"
    /\ Return(arb.p_after_main, arb)
    /\ UNCHANGED <<chain, swaps>>
    /\ ArbUnchangedEpisode

NextArb ==
    \/ ArbEntryNoTrade
    \/ ArbEntryRead
    \/ ArbEntryReadFails
    \/ ArbProbe
    \/ ArbProbeFails
    \/ ArbProbeRead
    \/ ArbProbeReadFails
    \/ ArbNaive
    \/ ArbNaiveFails
    \/ ArbNaiveRead
    \/ ArbNaiveReadFails
    \/ ArbMain
    \/ ArbMainFails
    \/ ArbMainRead
    \/ ArbMainReadFails
    \/ ArbNudge
    \/ ArbNudgeFails
    \/ ArbNudgeRead
    \/ ArbNudgeReadFails

---------------------------------------------------------------------------
(* run_episode *)

\* lp_helper + pool balances a state snapshot can report: <<weth, usdc>> raw
LpBalances == { <<20, 0>>, <<10, 1000>> }

\* exp(sigma * z) of one price step, as <<num, den>>
PriceFactors == { <<1, 1>>, <<2, 1>> }

Directions == {"buy_weth", "sell_weth"}

\* random.Random(seed): the seed fixes the stream of draws; a stream is a
\* sequence of draws, each one of two outcomes, and every stream has a seed
Seeds == [1..(2 * MaxSteps) -> {0, 1}]

\* step_price's rng.normalvariate(0.0, 1.0): exp(sigma * z) of the draw at rng_pos
rng_normalvariate(seed, rng_pos) ==
    IF seed[rng_pos + 1] = 0 THEN <<1, 1>> ELSE <<2, 1>>

RngChoicePreviousDraw(seed, rng_pos) ==
    IF seed[rng_pos] = 0 THEN "buy_weth" ELSE "sell_weth"

\* rng.choice(["buy_weth", "sell_weth"]) of the draw at rng_pos
rng_choice(seed, rng_pos) ==
    IF seed[rng_pos + 1] = 0 THEN "buy_weth" ELSE "sell_weth"

EpUnchangedArb == UNCHANGED <<caller, beta_ranges, arb, ret, policy, price_state>>

\* an exception leaves run_episode: no DataFrame is returned
EpRaise ==
    /\ pc' = "raised"
    /\ UNCHANGED <<chain, swaps, ep, cumulative_fees_usdc, rows>>

\* lines 391-415: initial snapshot, market price starts at the pool price
EpStart ==
    /\ pc = "ep_start"
    /\ \E bal \in LpBalances :
         ep' = [ep EXCEPT !.market_price = chain.price,
                          !.weth0 = bal[1],
                          !.usdc0 = bal[2],
                          !.init_strategy_value =
                              value_position_usdc(bal[1], bal[2], chain.price)]
    /\ pc' = "ep_loop"
    /\ UNCHANGED <<chain, swaps, cumulative_fees_usdc, rows>>
    /\ EpUnchangedArb

\* line 391: get_state() raises
EpStartFails ==
    /\ pc = "ep_start"
    /\ EpRaise
    /\ EpUnchangedArb

\* lines 418-469: next step: price step, state read, direction and size of the flow trade
EpAdvance ==
    /\ pc = "ep_loop"
    /\ ep.step_idx < ep.n_steps
    /\ LET factor == rng_normalvariate(ep.seed, ep.rng_pos)
           direction == rng_choice(ep.seed, ep.rng_pos + 1)
           market_price == step_price(ep.market_price, factor)
           zero_for_one == (direction = "sell_weth")
       IN  /\ factor \in PriceFactors
           /\ direction \in Directions
           /\ ep' = [ep EXCEPT !.market_price = market_price,
                              !.direction = direction,
                              !.rng_pos = @ + 2,
                              !.last_zero_for_one = zero_for_one,
                              !.last_amount_in_raw =
                                  IF zero_for_one
                                    THEN AmountWeth(ep.init_strategy_value, market_price)
                                    ELSE AmountUsdc(ep.init_strategy_value)]
    /\ swaps' = << >>
    /\ pc' = "ep_flow"
    /\ UNCHANGED <<chain, cumulative_fees_usdc, rows>>
    /\ EpUnchangedArb

\* line 424: get_state() raises
EpAdvanceReadFails ==
    /\ pc = "ep_loop"
    /\ ep.step_idx < ep.n_steps
    /\ EpRaise
    /\ EpUnchangedArb

\* lines 547-550: the loop is over, the rows are the output
EpFinish ==
    /\ pc = "ep_loop"
    /\ ep.step_idx >= ep.n_steps
    /\ pc' = "done"
    /\ UNCHANGED <<chain, swaps, ep, cumulative_fees_usdc, rows>>
    /\ EpUnchangedArb

\* lines 451-452 / 470-471: the flow swap succeeds
EpFlow ==
    /\ pc = "ep_flow"
    /\ \E s \in SwapResults : chain' = s
    /\ swaps' = Append(swaps, Swap("flow", ep.last_amount_in_raw, ep.last_zero_for_one, TRUE))
    /\ pc' = "ep_post_flow"
    /\ UNCHANGED <<ep, cumulative_fees_usdc, rows>>
    /\ EpUnchangedArb

\* lines 453-455 / 472-474: the flow swap raises: logged, continue with the next step
EpFlowFailsFallThrough ==
    /\ pc = "ep_flow"
    /\ swaps' = Append(swaps, Swap("flow", ep.last_amount_in_raw, ep.last_zero_for_one, FALSE))
    /\ pc' = "ep_post_flow"
    /\ UNCHANGED <<chain, ep, cumulative_fees_usdc, rows>>
    /\ EpUnchangedArb

EpFlowFails ==
    /\ pc = "ep_flow"
    /\ swaps' = Append(swaps, Swap("flow", ep.last_amount_in_raw, ep.last_zero_for_one, FALSE))
    /\ ep' = [ep EXCEPT !.step_idx = @ + 1]
    /\ pc' = "ep_loop"
    /\ UNCHANGED <<chain, cumulative_fees_usdc, rows>>
    /\ EpUnchangedArb

\* lines 479-482: the flow trade's fee, accrued only when the tick is in a band
AccrueFlowFee(fees, amount, zero_for_one, market_price, tick, ranges) ==
    IF is_tick_in_any_range(tick, ranges)
      THEN fees + compute_fee_usdc(amount, zero_for_one, market_price)
      ELSE fees

\* lines 477-497: snapshot after the flow trade, its fee, call of run_arbitrage_step
EpPostFlow ==
    /\ pc = "ep_post_flow"
    /\ \E bal \in LpBalances :
         ep' = [ep EXCEPT !.post_tick = chain.tick,
                          !.post_pool_price = chain.price,
                          !.lp_weth = bal[1],
                          !.lp_usdc = bal[2]]
    /\ cumulative_fees_usdc' =
         AccrueFlowFee(cumulative_fees_usdc, ep.last_amount_in_raw, ep.last_zero_for_one,
                       ep.market_price, chain.tick, beta_ranges)
    /\ arb' = ArbCall(chain.price, ep.market_price, EPISODE_MAX_ARB)
    /\ pc' = "arb_entry"
    /\ UNCHANGED <<caller, beta_ranges, chain, swaps, rows, ret, policy, price_state>>

\* line 477: get_state() raises
EpPostFlowFails ==
    /\ pc = "ep_post_flow"
    /\ EpRaise
    /\ EpUnchangedArb

\* line 498: cumulative_fees_usdc += arb_fees_usdc
AddArbFeesOverwrite(fees, arb_fees_usdc) == arb_fees_usdc

AddArbFees(fees, arb_fees_usdc) == fees + arb_fees_usdc

\* lines 505-533: the row of one step
Row(e, pool_price_after_arb, n_arb_trades, fees) ==
    LET lp_value_usdc == value_position_usdc(e.lp_weth, e.lp_usdc, e.market_price)
        hodl_value_usdc == value_position_usdc(e.weth0, e.usdc0, e.market_price)
        lp_vs_hodl == lp_value_usdc - hodl_value_usdc
        fees_value_usdc == fees
        il_value_usdc == lp_vs_hodl - fees_value_usdc
    IN  [ step |-> e.step_idx,
          direction |-> e.direction,
          tick |-> e.post_tick,
          pool_price_usdc_per_weth |-> Float(pool_price_after_arb),
          market_price_usdc_per_weth |-> Float(e.market_price),
          n_arb_trades |-> n_arb_trades,
          lp_weth |-> e.lp_weth,
          lp_usdc |-> e.lp_usdc,
          lp_value_usdc |-> Float(lp_value_usdc),
          hodl_value_usdc |-> Float(hodl_value_usdc),
          lp_vs_hodl |-> Float(lp_vs_hodl),
          fees_value_usdc |-> Float(fees_value_usdc),
          il_value_usdc |-> Float(il_value_usdc),
          amount_in_wei |-> e.last_amount_in_raw ]

\* lines 490-545: run_arbitrage_step returned: its fees, the valuations, the row
EpRecordNoAppend ==
    /\ pc = "arb_return"
    /\ caller = "run_episode"
    /\ cumulative_fees_usdc' = AddArbFees(cumulative_fees_usdc, ret[3])
    /\ ep' = [ep EXCEPT !.step_idx = @ + 1]
    /\ arb' = ArbIdle
    /\ ret' = << >>
    /\ pc' = "ep_loop"
    /\ UNCHANGED <<caller, beta_ranges, chain, swaps, rows, policy, price_state>>

EpRecord ==
    /\ pc = "arb_return"
    /\ caller = "run_episode"
    /\ LET fees == AddArbFees(cumulative_fees_usdc, ret[3])
       IN  /\ cumulative_fees_usdc' = fees
           /\ rows' = Append(rows, Row(ep, ret[1], ret[2], fees))
    /\ ep' = [ep EXCEPT !.step_idx = @ + 1]
    /\ arb' = ArbIdle
    /\ ret' = << >>
    /\ pc' = "ep_loop"
    /\ UNCHANGED <<caller, beta_ranges, chain, swaps, policy, price_state>>

NextEpisode ==
    \/ EpStart
    \/ EpStartFails
    \/ EpAdvance
    \/ EpAdvanceReadFails
    \/ EpFinish
    \/ EpFlow
    \/ EpFlowFails
    \/ EpPostFlow
    \/ EpPostFlowFails
    \/ EpRecord

Next == NextEpisode \/ NextArb

\* run_episode(n_steps) on a pool in any state
Init ==
    /\ pc = "ep_start"
    /\ caller = "run_episode"
    /\ chain \in EpisodeInitPoolStates
    /\ swaps = << >>
    /\ beta_ranges \in BandSets
    /\ \E n_steps \in 0..MaxSteps, seed \in Seeds :
         ep = [EpIdle EXCEPT !.n_steps = n_steps, !.seed = seed]
    /\ cumulative_fees_usdc = 0
    /\ rows = << >>
    /\ arb = ArbIdle
    /\ ret = << >>
    /\ policy = << >>
    /\ price_state = << >>

Spec == Init /\ [][Next]_vars

---------------------------------------------------------------------------
\* run_arbitrage_step called on its own, with any arguments
InitArb ==
    /\ pc = "arb_entry"
    /\ caller = "direct"
    /\ chain \in InitPoolStates
    /\ swaps = << >>
    /\ beta_ranges \in BandSets
    /\ ep = EpIdle
    /\ cumulative_fees_usdc = 0
    /\ rows = << >>
    /\ \E market_price \in {0, 1000}, max_arb_trades \in 0..MaxArbTrades :
         arb = ArbCall(chain.price, market_price, max_arb_trades)
    /\ ret = << >>
    /\ policy = << >>
    /\ price_state = << >>

SpecArb == InitArb /\ [][NextArb]_vars

---------------------------------------------------------------------------
(* Floats of beta_policy.py and price_process.py.  A float is held as an   *)
(* integer numerator over FIX; every operation rounds its exact result to  *)
(* FloatMant significant bits (ties to even), and to a multiple of 1/FIX   *)
(* below that, as a binary float format with that mantissa does.           *)

FixBits == 10
FIX == 2 ^ FixBits

\* n / d (n >= 0, d > 0) rounded to a float numerator
RoundRatio(n, d) ==
    LET q0 == n \div d
        unit == IF BitLen(q0) > FloatMant THEN 2 ^ (BitLen(q0) - FloatMant) ELSE 1
        big == d * unit
        q == n \div big
        r == n % big
    IN  IF 2 * r > big \/ (2 * r = big /\ q % 2 = 1)
          THEN (q + 1) * unit
          ELSE q * unit

SignedRatio(n, d) == IF n < 0 THEN 0 - RoundRatio(0 - n, d) ELSE RoundRatio(n, d)

FMul(a, b) == SignedRatio(a * b, FIX)
FDiv(a, b) == SignedRatio(a * FIX, b)
FAdd(a, b) == Float(a + b)
FSub(a, b) == Float(a - b)

\* x ** e for a whole exponent e >= 0
RECURSIVE FPow(_, _)
FPow(x, e) == IF e = 0 THEN FIX ELSE FMul(x, FPow(x, e - 1))

\* sum(list)
RECURSIVE FSum(_)
FSum(seq) == IF seq = << >> THEN 0 ELSE FAdd(FSum(SubSeq(seq, 1, Len(seq) - 1)), seq[Len(seq)])

---------------------------------------------------------------------------
(* make_beta_ranges (beta_policy.py) and generate_beta_ranges_json *)

MaxRanges == 5          \* desired_ranges ranges over -1..MaxRanges
MaxLiquidity == 50      \* largest total_liquidity tried

GEN_TICK_SPACING == 60  \* generate_beta_ranges_json: tick_spacing = 60
CENTER_X_MILLI == 999   \* x = 0.999 for the center band
MIN_GROUP_LIQ_DIV == 1000 \* min_group_liq = 1e-3
EPS_X_DIV == 1000000    \* 1e-6

Alphas == {1, 2, 3}
CurrentTicks == {-7, 65}
TickSpacings == {1, 3, 60}
DesiredRanges == (-1)..MaxRanges
RangeWidths == {-1, 0, 1, 3, 60, 90}
Separations == {-1, 0, 2, 120}
TotalLiquidities == {-1, 0, 1, 3, MaxLiquidity}

\* the smallest positive float stands for a positive value below 1/FIX
Tiny(div) == Max(1, RoundRatio(FIX, div))

PolicyCall(args) ==
    [ args |-> args,
      center_tick |-> 0, range_width_ticks |-> 0, separation_ticks |-> 0,
      half |-> 0, step |-> 0, j |-> 0,
      bands |-> << >>, ranges |-> << >>, data |-> << >> ]

PolicyUnchangedRest ==
    UNCHANGED <<caller, chain, swaps, beta_ranges, ep, cumulative_fees_usdc, rows, arb, ret,
                price_state>>

\* raise ValueError(...): nothing is returned; generate_beta_ranges_json does not catch it
PolicyRaise ==
    /\ pc' = "beta_raised"
    /\ UNCHANGED policy
    /\ PolicyUnchangedRest

RangesInvalid(desired_ranges) == desired_ranges < 1

WidthInvalid(range_width_ticks) == range_width_ticks <= 0

SeparationInvalidNever(separation_ticks) == FALSE

SeparationInvalid(separation_ticks) == separation_ticks < 0

\* lines 48-49
BetaRejectRanges ==
    /\ pc = "beta_entry"
    /\ RangesInvalid(policy.args.desired_ranges)
    /\ PolicyRaise

\* lines 55-56
BetaRejectWidth ==
    /\ pc = "beta_entry"
    /\ ~RangesInvalid(policy.args.desired_ranges)
    /\ WidthInvalid(policy.args.range_width_ticks)
    /\ PolicyRaise

\* lines 64-65
BetaRejectSeparation ==
    /\ pc = "beta_entry"
    /\ ~RangesInvalid(policy.args.desired_ranges)
    /\ ~WidthInvalid(policy.args.range_width_ticks)
    /\ SeparationInvalid(policy.args.separation_ticks)
    /\ PolicyRaise

\* (v // tick_spacing) * tick_spacing
SnapDown(v, tick_spacing) == (v \div tick_spacing) * tick_spacing

\* lines 58-61
NormaliseWidth(range_width_ticks, tick_spacing) ==
    Max(tick_spacing, SnapDown(range_width_ticks, tick_spacing))

\* lines 67-68
NormaliseSeparation(separation_ticks, tick_spacing) ==
    IF separation_ticks > 0 THEN SnapDown(separation_ticks, tick_spacing) ELSE separation_ticks

HalfCeil(desired_ranges) == (desired_ranges + 1) \div 2

\* line 71
Half(desired_ranges) == desired_ranges \div 2

\* lines 51-79: the arguments are valid: center, normalised width and separation, half, step
BetaNormalise ==
    /\ pc = "beta_entry"
    /\ ~RangesInvalid(policy.args.desired_ranges)
    /\ ~WidthInvalid(policy.args.range_width_ticks)
    /\ ~SeparationInvalid(policy.args.separation_ticks)
    /\ LET a == policy.args
           width == NormaliseWidth(a.range_width_ticks, a.tick_spacing)
           sep == NormaliseSeparation(a.separation_ticks, a.tick_spacing)
       IN  policy' = [policy EXCEPT !.center_tick = SnapDown(a.current_tick, a.tick_spacing),
                                    !.range_width_ticks = width,
                                    !.separation_ticks = sep,
                                    !.half = Half(a.desired_ranges),
                                    !.step = width + sep,
                                    !.j = 0]
    /\ pc' = "beta_loop"
    /\ PolicyUnchangedRest

BelowBandNextIndex(p, j) ==
    LET lower_b == p.center_tick - (j + 1) * p.step
    IN  <<lower_b, lower_b + p.range_width_ticks, j + 1>>

\* lines 91-93
BelowBand(p, j) ==
    LET lower_b == p.center_tick - (j + 1) * p.step
    IN  <<lower_b, lower_b + p.range_width_ticks, j>>

\* lines 96-98
AboveBand(p, j) ==
    LET lower_a == p.center_tick + j * p.step + p.separation_ticks
    IN  <<lower_a, lower_a + p.range_width_ticks, j>>

\* lines 89-98: one iteration of the loop over j
BetaBandPair ==
    /\ pc = "beta_loop"
    /\ policy.j < policy.half
    /\ policy' = [policy EXCEPT !.bands = @ \o <<BelowBand(policy, policy.j),
                                                 AboveBand(policy, policy.j)>>,
                                !.j = @ + 1]
    /\ pc' = "beta_loop"
    /\ PolicyUnchangedRest

\* line 103: (center_tick - halfw, center_tick + halfw, -1)
CenterBand(p) ==
    LET halfw == p.range_width_ticks \div 2
    IN  <<p.center_tick - halfw, p.center_tick + halfw, -1>>

\* lines 100-103: the loop is over; the center band of an odd desired_ranges
BetaCenter ==
    /\ pc = "beta_loop"
    /\ policy.j >= policy.half
    /\ policy' = [policy EXCEPT !.bands =
                     IF policy.args.desired_ranges % 2 = 1
                       THEN Append(@, CenterBand(policy))
                       ELSE @]
    /\ pc' = "beta_weights"
    /\ PolicyUnchangedRest

\* lines 109-120: the point x of the band with distance index j
BandX(j, half) ==
    IF j = -1 THEN RoundRatio(CENTER_X_MILLI * FIX, 1000)
    ELSE LET d == FDiv(((2 * j + 1) * FIX) \div 2, Max(1, half) * FIX)
             x == FSub(FIX, d)
         IN  IF x <= 0 THEN Tiny(EPS_X_DIV)
             ELSE IF x >= FIX THEN FSub(FIX, Tiny(EPS_X_DIV))
             ELSE x

\* lines 122-123
BandWeight(j, half, alpha, beta_param) ==
    LET x == BandX(j, half)
        w == FMul(FPow(x, alpha - 1), FPow(FSub(FIX, x), beta_param - 1))
    IN  Max(w, 0)

\* lines 107-123
Weights(p) ==
    [i \in 1..Len(p.bands) |->
        BandWeight(p.bands[i][3], p.half, p.args.alpha, p.args.beta_param)]

\* lines 125-132
Liquidities(p) ==
    LET w0 == Weights(p)
        sum0 == FSum(w0)
        weights == IF sum0 = 0 THEN [i \in 1..Len(p.bands) |-> FIX] ELSE w0
        weight_sum == IF sum0 = 0 THEN Len(p.bands) * FIX ELSE sum0
        scale == FDiv(p.args.total_liquidity, weight_sum)
    IN  [i \in 1..Len(p.bands) |-> Max(p.args.min_group_liq, FMul(weights[i], scale))]

\* ranges.sort(key=lambda r: r[0]): stable insertion of r into a sorted sequence
RECURSIVE InsertByLower(_, _)
InsertByLower(sorted, r) ==
    IF sorted = << >> THEN <<r>>
    ELSE IF sorted[Len(sorted)][1] <= r[1] THEN Append(sorted, r)
    ELSE Append(InsertByLower(SubSeq(sorted, 1, Len(sorted) - 1), r), sorted[Len(sorted)])

RECURSIVE SortByLower(_)
SortByLower(seq) ==
    IF seq = << >> THEN << >>
    ELSE InsertByLower(SortByLower(SubSeq(seq, 1, Len(seq) - 1)), seq[Len(seq)])

\* lines 105-140: weights, liquidities, the sorted result
BetaAllocate ==
    /\ pc = "beta_weights"
    /\ LET liquidities == Liquidities(policy)
           ranges == [i \in 1..Len(policy.bands) |->
                        <<policy.bands[i][1], policy.bands[i][2], liquidities[i]>>]
       IN  policy' = [policy EXCEPT !.ranges = SortByLower(ranges)]
    /\ pc' = "beta_return"
    /\ PolicyUnchangedRest

\* generate_beta_ranges.py lines 69-81: one entry of the JSON output
JsonEntry(r, tick_spacing) ==
    [ tickLower |-> SnapDown(r[1], tick_spacing),
      tickUpper |-> SnapDown(r[2], tick_spacing),
      liquidity |-> Max(1, r[3] \div FIX) ]

\* generate_beta_ranges.py lines 65-95: the bands are written out
GenWrite ==
    /\ pc = "beta_return"
    /\ caller = "generate_beta_ranges_json"
    /\ policy' = [policy EXCEPT !.data =
                     [i \in 1..Len(policy.ranges) |->
                         JsonEntry(policy.ranges[i], GEN_TICK_SPACING)]]
    /\ pc' = "gen_done"
    /\ PolicyUnchangedRest

NextBeta ==
    \/ BetaRejectRanges
    \/ BetaRejectWidth
    \/ BetaRejectSeparation
    \/ BetaNormalise
    \/ BetaBandPair
    \/ BetaCenter
    \/ BetaAllocate
    \/ GenWrite

\* make_beta_ranges called with any arguments (tick_spacing > 0), on its own or
\* by generate_beta_ranges_json, which fixes tick_spacing and min_group_liq
InitBeta ==
    /\ pc = "beta_entry"
    /\ caller \in {"direct", "generate_beta_ranges_json"}
    /\ chain = [price |-> 0, tick |-> 0]
    /\ swaps = << >>
    /\ beta_ranges = << >>
    /\ ep = EpIdle
    /\ cumulative_fees_usdc = 0
    /\ rows = << >>
    /\ arb = ArbIdle
    /\ ret = << >>
    /\ price_state = << >>
    /\ \E alpha \in Alphas, beta_param \in Alphas, current_tick \in CurrentTicks,
          total_liquidity \in TotalLiquidities, tick_spacing \in TickSpacings,
          desired_ranges \in DesiredRanges, range_width_ticks \in RangeWidths,
          separation_ticks \in Separations :
         /\ caller = "generate_beta_ranges_json" => tick_spacing = GEN_TICK_SPACING
         /\ policy = PolicyCall(
              [ alpha |-> alpha, beta_param |-> beta_param, current_tick |-> current_tick,
                total_liquidity |-> total_liquidity * FIX, tick_spacing |-> tick_spacing,
                desired_ranges |-> desired_ranges, range_width_ticks |-> range_width_ticks,
                separation_ticks |-> separation_ticks,
                min_group_liq |-> Tiny(MIN_GROUP_LIQ_DIV) ])

SpecBeta == InitBeta /\ [][NextBeta]_vars

---------------------------------------------------------------------------
(* step_price of price_process.py: the mean-reverting price process *)

MaxPriceSteps == 3     \* transitions of one run

\* standard normal draws z of rng.normalvariate(mu, sigma) = mu + z * sigma
NormalDraws == {0 - FIX, 0, FIX}

InitialScales == {0, FIX \div 4, FIX \div 2}
Kappas == {0, FIX \div 2, FIX}
ScaleMeans == {0, FIX \div 2, FIX}
ScaleSigmas == {0, FIX \div 4}

\* rng.normalvariate(0.0, sigma) for the draw z
normalvariate(sigma, z) == FAdd(0, FMul(z, sigma))

LatentScaleKappaOnly(kappa, r_bar, r, u_t) ==
    Max(0, FAdd(FAdd(FMul(kappa, r_bar), FMul(kappa, r)), u_t))

\* line 37: r_new = max(0.0, kappa * r_bar + (1.0 - kappa) * state.r + u_t)
LatentScale(kappa, r_bar, r, u_t) ==
    Max(0, FAdd(FAdd(FMul(kappa, r_bar), FMul(FSub(FIX, kappa), r)), u_t))

\* math.exp(eps), by its series up to the square term; exp(0) = 1 exactly
Exp(eps) == IF eps = 0 THEN FIX
            ELSE Max(1, FAdd(FAdd(FIX, eps), FMul(FMul(eps, eps), FIX \div 2)))

\* lines 35-43: one call of step_price
PriceProcessStep ==
    /\ pc = "price_step"
    /\ price_state.n < MaxPriceSteps
    /\ \E z_u \in NormalDraws, z_eps \in NormalDraws :
         LET u_t == normalvariate(price_state.sigma_s, z_u)
             r_new == LatentScale(price_state.kappa, price_state.r_bar, price_state.r, u_t)
             eps_t == normalvariate(r_new, z_eps)
             S_new == FMul(price_state.S, Exp(eps_t))
         IN  price_state' = [price_state EXCEPT !.r = r_new, !.S = S_new, !.n = @ + 1]
    /\ UNCHANGED <<pc, caller, chain, swaps, beta_ranges, ep, cumulative_fees_usdc, rows,
                   arb, ret, policy>>

NextPrice == PriceProcessStep

\* a run of the process from PriceProcessState(r0, S0) with any parameters
InitPrice ==
    /\ pc = "price_step"
    /\ caller = "direct"
    /\ chain = [price |-> 0, tick |-> 0]
    /\ swaps = << >>
    /\ beta_ranges = << >>
    /\ ep = EpIdle
    /\ cumulative_fees_usdc = 0
    /\ rows = << >>
    /\ arb = ArbIdle
    /\ ret = << >>
    /\ policy = << >>
    /\ \E r0 \in InitialScales, kappa \in Kappas, r_bar \in ScaleMeans, sigma_s \in ScaleSigmas :
         price_state = [ r |-> r0, S |-> FIX, r0 |-> r0, kappa |-> kappa, r_bar |-> r_bar,
                         sigma_s |-> sigma_s, n |-> 0 ]

SpecPrice == InitPrice /\ [][NextPrice]_vars

---------------------------------------------------------------------------
(* Claims.  The claims' own vocabulary is spelled out here, apart from the *)
(* operators that model the code.                                          *)

IsArbSwap(s) == s.kind # "flow"
ArbSwaps == SelectSeq(swaps, IsArbSwap)

RECURSIVE SumAmounts(_)
SumAmounts(seq) ==
    IF seq = << >> THEN 0 ELSE Head(seq).amount_in + SumAmounts(Tail(seq))

ArbPricesValid == arb.pool_price_start > 0 /\ arb.market_price > 0

\* |pool_price_start - market_price| / market_price <= band
ArbStartWithinBand ==
    Abs(arb.pool_price_start - arb.market_price) * BAND_DEN <= BAND_NUM * arb.market_price

\* the swap_helper balance of the token the call has to sell, once read
BalancesRead == arb.weth_bal # Unset
SellBalance ==
    IF arb.pool_price_start > arb.market_price THEN arb.weth_bal ELSE arb.usdc_bal

ReturnedUntouched ==
    /\ pc = "arb_return"
    /\ ret = <<arb.pool_price_start, 0, 0>>
    /\ ArbSwaps = << >>

\* C1: a call whose start price is within the band of the market price (boundary
\* included) returns (pool_price_start, 0, 0) and submits no swap.
C1_WithinBandNoSwap ==
    (ArbPricesValid /\ ArbStartWithinBand /\ pc # "arb_entry") => ReturnedUntouched

C1_Witness ==
    /\ arb.pool_price_start = 1001
    /\ arb.market_price = 1000
    /\ ReturnedUntouched

\* C2: when the deviation exceeds the band and the balance of the token to sell
\* is 0, the call returns (pool_price_start, 0, 0) and submits no swap.
C2_ZeroBalanceNoSwap ==
    (ArbPricesValid /\ ~ArbStartWithinBand /\ BalancesRead /\ SellBalance = 0)
        => ReturnedUntouched

C2_Witness ==
    /\ ArbPricesValid /\ ~ArbStartWithinBand
    /\ arb.weth_bal = 0 /\ arb.usdc_bal = BigBal
    /\ arb.pool_price_start > arb.market_price
    /\ ReturnedUntouched

\* C3: the number of swaps submitted in one call and the returned n_trades never
\* exceed max_arb_trades, for every max_arb_trades >= 0.
C3_TradesWithinCap ==
    /\ Len(ArbSwaps) <= arb.max_arb_trades
    /\ pc = "arb_return" => ret[2] <= arb.max_arb_trades

\* C4: the input amounts of the sub-trades of one call sum to at most half
\* (floor) of the balance of the token being sold.
C4_SpendWithinHalf ==
    BalancesRead => SumAmounts(ArbSwaps) <= SellBalance \div 2

\* C8: no adapter failure leaves run_arbitrage_step: the call always returns
\* (price, swaps executed so far, fees so far).
C8_FailuresSwallowed ==
    /\ pc # "raised"
    /\ pc = "arb_return" =>
         /\ ret[2] = arb.n_trades
         /\ ret[3] = arb.arb_fees_usdc

---------------------------------------------------------------------------
(* Claims about run_episode *)

\* the tick lies in no band [lower, upper) of the loaded band set
TickOutsideEveryBand(tick) ==
    \A i \in 1..Len(beta_ranges) : tick < beta_ranges[i][1] \/ tick >= beta_ranges[i][2]

ArbReadPcs == {"arb_probe_read", "arb_naive_read", "arb_main_read", "arb_nudge_read"}

\* C5: a trade (flow trade or arbitrage sub-trade) after which the tick read lies
\* in no band [lower, upper) adds exactly 0 to the fee accumulator: the flow
\* trade leaves cumulative_fees_usdc as it was, a sub-trade leaves the call's
\* arb_fees_usdc as it was, and the call's arb_fees_usdc is all that the
\* episode adds for the sub-trades.
C5_OutsideBandNoFee ==
    [][ /\ (pc = "ep_post_flow" /\ pc' = "arb_entry" /\ TickOutsideEveryBand(chain.tick))
            => cumulative_fees_usdc' = cumulative_fees_usdc
        /\ (pc \in ArbReadPcs /\ pc' # "raised" /\ TickOutsideEveryBand(chain.tick))
            => arb'.arb_fees_usdc = arb.arb_fees_usdc
        /\ (pc = "arb_return" /\ pc' = "ep_loop")
            => cumulative_fees_usdc' = cumulative_fees_usdc + arb.arb_fees_usdc
      ]_vars

\* a successful flow trade left the tick on the upper bound of a band, and no fee was accrued
C5_Witness ==
    /\ pc = "arb_entry"
    /\ caller = "run_episode"
    /\ beta_ranges = LoadedRanges
    /\ chain.tick = 40
    /\ Len(swaps) = 1 /\ swaps[1].ok
    /\ ep.last_amount_in_raw > 0
    /\ cumulative_fees_usdc = 0

RowFeesSorted ==
    \A i \in 1..(Len(rows) - 1) : rows[i].fees_value_usdc <= rows[i + 1].fees_value_usdc

\* C6: the fee accumulator of run_episode never decreases, and the recorded
\* fees_value_usdc of each row is >= that of the row before it.
C6_FeesMonotone ==
    /\ [][cumulative_fees_usdc' >= cumulative_fees_usdc]_vars
    /\ []RowFeesSorted

C6_Witness ==
    /\ Len(rows) = 2
    /\ rows[1].fees_value_usdc > 0
    /\ rows[2].fees_value_usdc > rows[1].fees_value_usdc

\* C7: every recorded row satisfies il_value == lp_vs_hodl - fees_value and
\* lp_vs_hodl == lp_value - hodl_value, on the values the row holds.
C7_RowIdentity ==
    \A i \in 1..Len(rows) :
        /\ rows[i].il_value_usdc = Float(rows[i].lp_vs_hodl - rows[i].fees_value_usdc)
        /\ rows[i].lp_vs_hodl = Float(rows[i].lp_value_usdc - rows[i].hodl_value_usdc)

FlowSwapFailed(log) == Len(log) >= 1 /\ log[1].kind = "flow" /\ ~log[1].ok

\* C9: when the flow swap of a step fails, the step accrues no fee, runs no
\* arbitrage (the flow swap is the step's only swap), appends no row, leaves
\* the fee accumulator unchanged, and the loop goes on with the next step index.
C9_FailedFlowSkipsStep ==
    /\ [][ (pc = "ep_flow" /\ FlowSwapFailed(swaps'))
              => /\ cumulative_fees_usdc' = cumulative_fees_usdc
                 /\ rows' = rows
                 /\ arb' = arb
                 /\ ep'.step_idx = ep.step_idx + 1
                 /\ pc' = "ep_loop" ]_vars
    /\ [](FlowSwapFailed(swaps) => (Len(swaps) = 1 /\ arb = ArbIdle))

\* step 0 was skipped after its flow swap failed, and step 1 went on to be recorded
C9_Witness ==
    /\ Len(rows) = 1
    /\ rows[1].step = 1
    /\ cumulative_fees_usdc = rows[1].fees_value_usdc
    /\ pc = "ep_loop"

\* C10 as stated: the output has n_steps rows with step fields 0, 1, ..., n_steps-1
C10_OneRowPerStep ==
    pc = "done" =>
        /\ Len(rows) = ep.n_steps
        /\ \A i \in 1..Len(rows) : rows[i].step = i - 1

RowStepsIncreasing ==
    /\ \A i \in 1..Len(rows) : rows[i].step \in 0..(ep.step_idx - 1)
    /\ \A i \in 1..(Len(rows) - 1) : rows[i].step < rows[i + 1].step

\* C10, amended: the output has exactly one row per step whose flow swap
\* succeeded and none for a step whose flow swap failed: every step ends either
\* by appending one row carrying its step index or as a failed flow swap with
\* the rows unchanged; the step fields are strictly increasing in 0..n_steps-1
\* and the output is returned after n_steps steps.
C10_OneRowPerCompletedStep ==
    /\ [](/\ RowStepsIncreasing
          /\ Len(rows) <= ep.step_idx
          /\ ep.step_idx <= ep.n_steps
          /\ (pc = "done" => ep.step_idx = ep.n_steps))
    /\ [][ /\ ep'.step_idx # ep.step_idx =>
                /\ ep'.step_idx = ep.step_idx + 1
                /\ \/ /\ FlowSwapFailed(swaps')
                      /\ rows' = rows
                   \/ /\ ~FlowSwapFailed(swaps)
                      /\ Len(swaps) >= 1 /\ swaps[1].kind = "flow"
                      /\ Len(rows') = Len(rows) + 1
                      /\ SubSeq(rows', 1, Len(rows)) = rows
                      /\ rows'[Len(rows')].step = ep.step_idx
           /\ rows' # rows => ep'.step_idx # ep.step_idx ]_vars

\* the output of a 2-step episode whose first flow swap failed: one row, for step 1
C10_Witness ==
    /\ pc = "done"
    /\ ep.n_steps = 2
    /\ Len(rows) = 1
    /\ rows[1].step = 1

---------------------------------------------------------------------------
(* Claims about make_beta_ranges and generate_beta_ranges_json *)

BetaReturned == pc \in {"beta_return", "gen_done"}

BetaArgsValid ==
    /\ policy.args.desired_ranges >= 1
    /\ policy.args.range_width_ticks > 0
    /\ policy.args.separation_ticks >= 0

\* C11: make_beta_ranges returns exactly desired_ranges bands, for even and odd
\* desired_ranges >= 1 and every valid width, separation and tick_spacing.
C11_LengthIsDesired ==
    BetaReturned => Len(policy.ranges) = policy.args.desired_ranges

C11_Witness ==
    /\ pc = "beta_return"
    /\ policy.args.desired_ranges = MaxRanges
    /\ Len(policy.ranges) = MaxRanges
    /\ policy.args.range_width_ticks = 90
    /\ policy.args.tick_spacing = 60

\* C12: every returned band, the centered one included, has upper_tick - lower_tick
\* equal to a positive multiple of tick_spacing.
C12_WidthMultipleOfSpacing ==
    BetaReturned =>
        \A i \in 1..Len(policy.ranges) :
            LET width == policy.ranges[i][2] - policy.ranges[i][1]
            IN  width > 0 /\ width % policy.args.tick_spacing = 0

\* C13: every returned band has lower_tick < upper_tick and both ticks are
\* multiples of tick_spacing, for even and odd desired_ranges alike.
C13_TicksOnSpacing ==
    BetaReturned =>
        \A i \in 1..Len(policy.ranges) :
            /\ policy.ranges[i][1] < policy.ranges[i][2]
            /\ policy.ranges[i][1] % policy.args.tick_spacing = 0
            /\ policy.ranges[i][2] % policy.args.tick_spacing = 0

RECURSIVE SumLiquidity(_)
SumLiquidity(ranges) ==
    IF ranges = << >> THEN 0 ELSE Head(ranges)[3] + SumLiquidity(Tail(ranges))

\* sum(r[2] for r in ranges), as a caller adds the floats up
FloatSumLiquidity(ranges) == FSum([i \in 1..Len(ranges) |-> ranges[i][3]])

\* C14: for total_liquidity > 0 the liquidities of the returned bands sum to at
\* least total_liquidity, be the sum taken exactly or in floats.
C14_SumAtLeastTotal ==
    (BetaReturned /\ policy.args.total_liquidity > 0)
        => \/ SumLiquidity(policy.ranges) >= policy.args.total_liquidity
           \/ FloatSumLiquidity(policy.ranges) >= policy.args.total_liquidity

\* the returned band with these ticks
IsBand(r, lower, upper) == r[1] = lower /\ r[2] = upper

\* C15: with alpha == beta_param, the band below center and the band above center
\* with the same distance index j have equal liquidity.
C15_SymmetricPairsEqual ==
    (BetaReturned /\ policy.args.alpha = policy.args.beta_param) =>
        \A j \in 0..(policy.args.desired_ranges \div 2 - 1) :
            \A a \in 1..Len(policy.ranges), b \in 1..Len(policy.ranges) :
                LET lower_b == policy.center_tick - (j + 1) * policy.step
                    lower_a == policy.center_tick + j * policy.step + policy.separation_ticks
                IN  ( /\ IsBand(policy.ranges[a], lower_b, lower_b + policy.range_width_ticks)
                      /\ IsBand(policy.ranges[b], lower_a, lower_a + policy.range_width_ticks) )
                    => policy.ranges[a][3] = policy.ranges[b][3]

\* four bands, alpha == beta_param == 2: the two pairs are there, with a liquidity above the floor
C15_Witness ==
    /\ pc = "beta_return"
    /\ policy.args.alpha = 2 /\ policy.args.beta_param = 2
    /\ policy.args.desired_ranges = 4
    /\ policy.args.total_liquidity = MaxLiquidity * FIX
    /\ Len(policy.ranges) = 4
    /\ policy.ranges[1][3] = policy.ranges[4][3]
    /\ policy.ranges[2][3] = policy.ranges[3][3]
    /\ policy.ranges[1][3] > policy.args.min_group_liq

\* C16: desired_ranges < 1, range_width_ticks <= 0 or separation_ticks < 0 makes
\* make_beta_ranges raise: no band is built or returned, and the offending
\* argument is not replaced by a valid value.
C16_InvalidArgsRaise ==
    (~BetaArgsValid /\ pc # "beta_entry") =>
        /\ pc = "beta_raised"
        /\ policy.bands = << >> /\ policy.ranges = << >> /\ policy.data = << >>
        /\ policy = PolicyCall(policy.args)

C16_Witness ==
    /\ pc = "beta_raised"
    /\ policy.args.desired_ranges >= 1
    /\ policy.args.range_width_ticks > 0
    /\ policy.args.separation_ticks < 0

\* C17: a total_liquidity <= 0 is rejected with an error before any band set is
\* produced, by make_beta_ranges and by generate_beta_ranges_json.
C17_NonPositiveLiquidityRejected ==
    (policy.args.total_liquidity <= 0 /\ pc # "beta_entry") =>
        /\ pc = "beta_raised"
        /\ policy.ranges = << >> /\ policy.data = << >>

---------------------------------------------------------------------------
(* Claims about the mean-reverting price process *)

\* C18: with sigma_s = 0 and kappa = 0 and r0 >= 0, the latent scale r equals
\* r0 after any number of transitions, for every r_bar.
C18_ScaleStaysAtStart ==
    (pc = "price_step" /\ price_state.sigma_s = 0 /\ price_state.kappa = 0 /\ price_state.r0 >= 0)
        => price_state.r = price_state.r0

C18_Witness ==
    /\ pc = "price_step"
    /\ price_state.sigma_s = 0 /\ price_state.kappa = 0
    /\ price_state.n = MaxPriceSteps
    /\ price_state.r_bar = FIX
    /\ price_state.r0 = FIX \div 4
    /\ price_state.r = FIX \div 4
    /\ price_state.S # FIX

---------------------------------------------------------------------------
(* Claims about the random source and about retries *)

\* the direction the seed gives to step k: the second draw of the step
SeedDirection(k) == IF ep.seed[2 * k + 2] = 0 THEN "buy_weth" ELSE "sell_weth"

\* the market price the seed gives after the price transition of step k: the
\* first draw of each step 0..k, from the start price 1000
RECURSIVE SeedMarketPrice(_)
SeedMarketPrice(k) ==
    (IF k = 0 THEN 1000 ELSE SeedMarketPrice(k - 1)) * (IF ep.seed[2 * k + 1] = 0 THEN 1 ELSE 2)

InStep == pc \notin {"ep_start", "ep_loop", "done", "raised"}

\* C19: the random source is consumed in a fixed order: two draws per step, the
\* price transition then the direction, in skipped steps too, and none by the
\* arbitrage; so the market price and the direction of every step, the
\* direction of its flow swap and both in its row are those the seed gives,
\* whatever the adapter answers.
C19_SeedDeterminesDraws ==
    /\ [](/\ pc \in {"ep_start", "ep_loop", "done"} => ep.rng_pos = 2 * ep.step_idx
          /\ InStep => /\ ep.rng_pos = 2 * (ep.step_idx + 1)
                       /\ ep.direction = SeedDirection(ep.step_idx)
                       /\ ep.market_price = SeedMarketPrice(ep.step_idx)
                       /\ \A i \in 1..Len(swaps) :
                            swaps[i].kind = "flow" =>
                              /\ i = 1
                              /\ swaps[i].zero_for_one = (SeedDirection(ep.step_idx) = "sell_weth")
          /\ \A i \in 1..Len(rows) :
                /\ rows[i].direction = SeedDirection(rows[i].step)
                /\ rows[i].market_price_usdc_per_weth = Float(SeedMarketPrice(rows[i].step)))
    /\ [][ep'.rng_pos # ep.rng_pos => (pc = "ep_loop" /\ pc' = "ep_flow")]_vars

\* step 0 was skipped, step 1 bought after the price doubled, and an arbitrage swap ran
C19_Witness ==
    /\ pc = "ep_loop"
    /\ ep.seed = <<0, 1, 1, 0>>
    /\ Len(rows) = 1
    /\ rows[1].step = 1
    /\ rows[1].direction = "buy_weth"
    /\ rows[1].n_arb_trades >= 1
    /\ ep.rng_pos = 4

\* C20: no swap is retried: a failed swap is the last swap of its step, so a
\* call of run_arbitrage_step submits nothing after a failed swap, and a step
\* submits nothing after a failed flow swap.
C20_NoRetry ==
    \A i \in 1..Len(swaps) : ~swaps[i].ok => i = Len(swaps)

\* a flow swap and a probe went through, the targeted swap failed, and the step was recorded
C20_Witness ==
    /\ pc = "ep_loop"
    /\ Len(swaps) = 3
    /\ swaps[1].kind = "flow" /\ swaps[1].ok
    /\ swaps[2].kind = "probe" /\ swaps[2].ok
    /\ swaps[3].kind = "main" /\ ~swaps[3].ok
    /\ Len(rows) = 1

---------------------------------------------------------------------------
(* Claims about the sequence of sub-trades of run_arbitrage_step *)

\* budget left after the probe
BudgetAfterProbe == arb.max_affordable - arb.probe_amount

\* (market_price - price_after_probe) / slope, slope = delta_p / probe_amount,
\* clamped into [1, remaining_budget]
TargetedSize ==
    LET num == (arb.market_price - arb.p_after_probe) * arb.probe_amount
        den == arb.p_after_probe - arb.pool_price_start
        q == IF den > 0 THEN num \div den ELSE (-num) \div (-den)
    IN  Max(1, Min(q, BudgetAfterProbe))

\* C21: whenever the probe changed the price, the deviation after the probe
\* still exceeds the band and n_trades < max_arb_trades, the targeted trade is
\* executed, of size (market_price - price_after_probe) / slope clamped into
\* [1, remaining_budget].
C21_TargetedTradeExecuted ==
    [][ (/\ pc = "arb_probe_read"
         /\ pc' # "raised"
         /\ arb.p_after_probe # arb.pool_price_start
         /\ ~WithinBand(arb.p_after_probe, arb.market_price)
         /\ arb.n_trades < arb.max_arb_trades
         /\ BudgetAfterProbe >= 1)
        => /\ pc' = "arb_main"
           /\ arb'.q_target_int = TargetedSize ]_vars

\* budget left after the corrective trade that followed the probe
BudgetAfterCorrective ==
    IF pc = "arb_naive_read"
      THEN arb.max_affordable - arb.probe_amount - NaiveAmount(arb.max_affordable)
      ELSE arb.max_affordable - arb.probe_amount - arb.q_target_int

\* C22: whenever the corrective trade after the probe (targeted, or naive on a
\* zero slope) leaves the deviation above the band, budget remains and
\* n_trades < max_arb_trades, the call goes on to the final nudge trade
\* (a state read that fails is left aside).
C22_NudgeAfterCorrectiveTrade ==
    [][ (/\ pc \in {"arb_naive_read", "arb_main_read"}
         /\ pc' # "raised"
         /\ (pc' = "arb_return" => ret'[1] = chain.price)
         /\ ~WithinBand(chain.price, arb.market_price)
         /\ arb.n_trades < arb.max_arb_trades
         /\ BudgetAfterCorrective >= 1)
        => pc' = "arb_nudge" ]_vars

\* the pool price last observed before the sub-trade about to be submitted
LastObservedPrice ==
    CASE pc = "arb_probe" -> arb.pool_price_start
      [] pc \in {"arb_naive", "arb_main"} -> arb.p_after_probe
      [] pc = "arb_nudge" -> arb.p_after_main
      [] OTHER -> arb.market_price

\* C23: every sub-trade submitted sells WETH only if the pool price last
\* observed before it is above market_price, and buys WETH only if it is below.
C23_NeverTradesAway ==
    [][ (Len(swaps') = Len(swaps) + 1 /\ IsArbSwap(swaps'[Len(swaps')]))
        => IF swaps'[Len(swaps')].zero_for_one
             THEN LastObservedPrice > arb.market_price
             ELSE LastObservedPrice < arb.market_price ]_vars

\* C24: the tick and the pool price of every row are those of the pool state
\* after the last trade of the row's step.
C24_RowDescribesPoolAfterArbitrage ==
    [][ Len(rows') = Len(rows) + 1
        => /\ rows'[Len(rows')].tick = chain.tick
           /\ rows'[Len(rows')].pool_price_usdc_per_weth = Float(chain.price) ]_vars


\* the kinds of the sub-trades of one call, in the order they are submitted
ArbKinds == [i \in 1..Len(ArbSwaps) |-> ArbSwaps[i].kind]

IsPrefix(s, t) == Len(s) <= Len(t) /\ SubSeq(t, 1, Len(s)) = s

\* C28: one call of run_arbitrage_step submits at most 3 swaps: the probe, then
\* one targeted or one naive trade, then at most one nudge and none after a
\* naive trade; n_arb_trades of every row lies in 0..3, and a call made with the
\* per-step cap of 10 returns with n_trades below the cap.
C28_AtMostThreeSwaps ==
    /\ Len(ArbSwaps) <= 3
    /\ \/ IsPrefix(ArbKinds, <<"probe", "main", "nudge">>)
       \/ IsPrefix(ArbKinds, <<"probe", "naive">>)
    /\ \A i \in 1..Len(rows) : rows[i].n_arb_trades \in 0..3
    /\ pc = "arb_return" => (ret[2] <= 3 /\ ret[2] < arb.max_arb_trades)

\* a step whose arbitrage ran the probe, the targeted trade and the nudge
C28_Witness ==
    /\ pc = "ep_loop"
    /\ Len(rows) >= 1
    /\ rows[Len(rows)].n_arb_trades = 3
    /\ ArbKinds = <<"probe", "main", "nudge">>
    /\ \A i \in 1..Len(swaps) : swaps[i].ok

---------------------------------------------------------------------------
(* Claims about the geometry and the liquidity of the bands *)

\* C25: in the sorted output, the gap between the upper tick of each band and
\* the lower tick of the next band equals the normalized separation_ticks.
C25_GapIsSeparation ==
    BetaReturned =>
        \A i \in 1..(Len(policy.ranges) - 1) :
            policy.ranges[i + 1][1] - policy.ranges[i][2] = policy.separation_ticks

\* the band b = <<lower, upper, j>> lies below the center
IsBelow(b) == b[1] < policy.center_tick

\* the liquidity the result gives to the band b = <<lower, upper, j>>
LiquidityOf(b) ==
    LET i == CHOOSE k \in 1..Len(policy.ranges) : IsBand(policy.ranges[k], b[1], b[2])
    IN  policy.ranges[i][3]

\* C26: of two bands on the same side with distance indices j1 < j2, the one
\* with j1 has at least the liquidity of the one with j2, for every alpha and
\* beta_param > 0.
C26_CloserBandsGetMore ==
    BetaReturned =>
        \A a \in 1..Len(policy.bands), b \in 1..Len(policy.bands) :
            ( /\ policy.bands[a][3] >= 0
              /\ policy.bands[a][3] < policy.bands[b][3]
              /\ IsBelow(policy.bands[a]) = IsBelow(policy.bands[b]) )
            => LiquidityOf(policy.bands[a]) >= LiquidityOf(policy.bands[b])

\* C27: the band set written by generate_beta_ranges_json has desired_ranges
\* entries sorted ascending by tickLower, each with tickLower < tickUpper, both
\* multiples of 60, and an integer liquidity >= 1; the entries are pairwise
\* distinct bands.
C27_JsonWellFormed ==
    pc = "gen_done" =>
        /\ Len(policy.data) = policy.args.desired_ranges
        /\ \A i \in 1..(Len(policy.data) - 1) :
               policy.data[i].tickLower <= policy.data[i + 1].tickLower
        /\ \A i \in 1..Len(policy.data) :
               /\ policy.data[i].tickLower < policy.data[i].tickUpper
               /\ policy.data[i].tickLower % 60 = 0
               /\ policy.data[i].tickUpper % 60 = 0
               /\ policy.data[i].liquidity >= 1
        /\ \A i \in 1..Len(policy.data), k \in 1..Len(policy.data) :
               i # k => \/ policy.data[i].tickLower # policy.data[k].tickLower
                        \/ policy.data[i].tickUpper # policy.data[k].tickUpper

\* current_tick lies in a returned band [lower_tick, upper_tick)
CurrentTickInSomeBand ==
    \E i \in 1..Len(policy.ranges) :
        /\ policy.ranges[i][1] <= policy.args.current_tick
        /\ policy.args.current_tick < policy.ranges[i][2]

\* C29: with separation_ticks = 0 the current_tick lies inside at least one
\* returned band [lower_tick, upper_tick), for every desired_ranges >= 1, every
\* tick_spacing > 0 and every current_tick.
C29_CurrentTickCovered ==
    (BetaReturned /\ policy.args.separation_ticks = 0) => CurrentTickInSomeBand

\* C30: the returned bands are pairwise non-overlapping as half-open intervals
\* [lower_tick, upper_tick), for every desired_ranges >= 1 and separation >= 0.
C30_BandsDisjoint ==
    BetaReturned =>
        \A i \in 1..Len(policy.ranges), k \in 1..Len(policy.ranges) :
            i < k => \/ policy.ranges[i][2] <= policy.ranges[k][1]
                     \/ policy.ranges[k][2] <= policy.ranges[i][1]


=============================================================================
